---- MODULE Spec2Model ----
(***************************************************************************)
(* Model of src/src/js/touch.js: the TouchMoveListener (pointer            *)
(* normalizer) that turns DOM mouse/touch events into start/move/end/      *)
(* cancel callbacks, and the TouchGestureListener (gesture classifier)     *)
(* whose four closures consume those callbacks and trigger named actions.  *)
(*                                                                         *)
(* RangeInput, the slider of the same file, is modelled with its own       *)
(* specification SliderSpec: its pointer callback, keyboard handler,       *)
(* setValue, setConfig, dispatch and the animation frame that applies a    *)
(* pending value.                                                          *)
(*                                                                         *)
(* Coordinates are integers of a small grid.  The thresholds and the       *)
(* number of click parts are constructor options: Init draws them from     *)
(* small sets.  yRadian keeps its default Math.PI / 2.                     *)
(***************************************************************************)
EXTENDS Integers, Sequences, FiniteSets, TLC

\* Largest pageX / pageY an event carries (the grid is 0..MaxX by 0..MaxY).
MaxX == 3
MaxY == 3

\* window.innerWidth read by the tap classification; pageX = innerWidth is a
\* position right of the viewport (a horizontally scrolled page).
innerWidth == MaxX

\* Values the constructor options are drawn from.
MinDistanceChoices == {2, 4}
ClickPartsChoices == {2, 3, 4}

Null == "null"

Xs == 0..MaxX
Ys == 0..MaxY

\* The action names the on* registration methods subscribe to.
ActionNames ==
    {"touch", "touchleft", "touchright", "touchmiddle", "movex", "movey",
     "cancelx", "cancely", "slideup", "slidedown", "slideleft", "slideright"}

\* document-scoped listeners of each modality, element-scoped listeners.
MouseEvents == {"mouseup", "mouseleave", "mousemove"}
TouchEvents == {"touchend", "touchcancel", "touchmove"}
ElementEvents == {"mousedown", "touchstart"}

VARIABLES
    minDistanceX, minDistanceY, clickParts,   \* TouchGestureListener options
    startPos, lastPos, direction,             \* TouchGestureListener closure state
    mouseDown, touchStart,                    \* TouchMoveListener closure state
    elementListeners, documentListeners,      \* listeners registered on the DOM
    disposed,                                 \* dispatch() has been called
    event,                                    \* the DOM event handled in the last step
    signals,                                  \* triggerCallback calls of the last step
    fired,                                    \* listener invocations of the last step
    exceeded,                                 \* history: a move of this session went past minDistance
    moved,                                    \* history: a move action fired in this session
    seen,                                     \* closure state at each listener invocation of the last step
    sessionOpen,                              \* history: a start was passed and no end or cancel since
    wasOpen,                                  \* sessionOpen when the last step's signal was passed
    touchActive,                              \* history: a touchstart was handled and no touchend, touchcancel or dispatch since
    calls,                                    \* document add/remove calls of the last step
    rangeConfig,                              \* RangeInput this.config
    value,                                    \* RangeInput this.value
    updatePendingValue,                       \* RangeInput this.updatePendingValue: <<>> for null or undefined, <<v>> for the number v
    rafCallbacks,                             \* updateValue calls waiting for window.requestAnimationFrame
    emitted,                                  \* values passed to the onChange listener in the last step
    lastCall,                                 \* history: <<v>> for the argument v of the most recent updateValue call
    ratioCalls,                               \* setRatio calls of the last step: the ratio and the position it computed
    repeatCount,                              \* RangeInput this.repeatCount: undefined, NaN or a number
    keydownListener                           \* the container has the keydown listener and the slider's pointer listener is attached

config == <<minDistanceX, minDistanceY, clickParts>>
gesture == <<startPos, lastPos, direction>>
history == <<exceeded, moved>>
touch == <<minDistanceX, minDistanceY, clickParts, startPos, lastPos, direction,
           mouseDown, touchStart, elementListeners, documentListeners, disposed,
           event, signals, fired, exceeded, moved, seen, sessionOpen, wasOpen,
           touchActive, calls>>
slider == <<rangeConfig, value, updatePendingValue, rafCallbacks, emitted,
            lastCall, ratioCalls, repeatCount, keydownListener>>
vars == <<touch, slider>>

Abs(n) == IF n < 0 THEN -n ELSE n

Min(a, b) == IF a < b THEN a ELSE b

Max(a, b) == IF a < b THEN b ELSE a

\* Mutant of minDistance: the larger of the two thresholds.
minDistance_max == IF minDistanceX < minDistanceY THEN minDistanceY ELSE minDistanceX

\* this.minDistance = Math.min(minDistanceX, minDistanceY)
minDistance == Min(minDistanceX, minDistanceY)

\* Math.floor(a / b) for b > 0
Floor(a, b) == a \div b

(***************************************************************************)
(* TouchGestureListener: the gesture classifier                            *)
(***************************************************************************)

\* angle > 0 for angle = Math.atan2(dy, dx), which lies in (-pi, pi]: the
\* upper half plane, and the negative x axis where angle = pi.
anglePositive(dx, dy) == dy > 0 \/ (dy = 0 /\ dx < 0)

\* Mutant of nearVertical: the window compared with <= instead of <.
nearVertical_inclusive(dx, dy) ==
    IF anglePositive(dx, dy)
    THEN dy - dx >= 0 /\ dx + dy >= 0
    ELSE -dx - dy >= 0 /\ dx - dy >= 0

\* Math.abs(angle - (angle > 0 ? 1 : -1) * Math.PI / 2) < yRadian / 2 with
\* angle = Math.atan2(dy, dx) and the default yRadian = Math.PI / 2.
\* angle > 0: |angle - pi/2| < pi/4, that is pi/4 < angle < 3pi/4: the vector
\* lies strictly counterclockwise of (1, 1) and strictly clockwise of (-1, 1),
\* which the signs of the two cross products decide.  angle <= 0:
\* |angle + pi/2| < pi/4, that is -3pi/4 < angle < -pi/4, between (-1, -1)
\* and (1, -1).  On the diagonals the difference is exactly pi/4 in double
\* arithmetic, so the strict comparison is false there.
nearVertical(dx, dy) ==
    IF anglePositive(dx, dy)
    THEN dy - dx > 0 /\ dx + dy > 0
    ELSE -dx - dy > 0 /\ dx - dy > 0

\* Math.hypot(dx, dy) > this.minDistance, on integers.
beyondMinDistance(dx, dy) == dx * dx + dy * dy > minDistance * minDistance

calculateDirection(dx, dy) ==
    IF beyondMinDistance(dx, dy)
    THEN IF nearVertical(dx, dy) THEN "y" ELSE "x"
    ELSE Null

\* arr[i] of a JavaScript array: undefined outside 0..length-1.
ArrayAt(arr, i) == IF i \in 0..(Len(arr) - 1) THEN arr[i + 1] ELSE "undefined"

\* Mutant of tapAction: the zone index rounded instead of floored.
tapAction_rounded(x) ==
    IF clickParts = 2
    THEN ArrayAt(<<"touchleft", "touchright">>, Floor(2 * x * 2 + innerWidth, 2 * innerWidth))
    ELSE IF clickParts = 3
    THEN ArrayAt(<<"touchleft", "touchmiddle", "touchright">>,
                 Floor(2 * x * 3 + innerWidth, 2 * innerWidth))
    ELSE "touch"

\* The tap action of touchEndHandler for a start at pageX = x.
tapAction(x) ==
    IF clickParts = 2
    THEN ArrayAt(<<"touchleft", "touchright">>, Floor(x * 2, innerWidth))
    ELSE IF clickParts = 3
    THEN ArrayAt(<<"touchleft", "touchmiddle", "touchright">>, Floor(x * 3, innerWidth))
    ELSE "touch"

\* Mutant of cancelAction: the two names exchanged.
cancelAction_swapped(d) == IF d = "x" THEN "cancely" ELSE "cancelx"

\* direction === 'x' ? 'cancelx' : 'cancely'
cancelAction(d) == IF d = "x" THEN "cancelx" ELSE "cancely"

\* Mutant of moveAction: the two names exchanged.
moveAction_swapped(d) == IF d = "x" THEN "movey" ELSE "movex"

\* direction === 'x' ? 'movex' : 'movey'
moveAction(d) == IF d = "x" THEN "movex" ELSE "movey"

\* Mutant of moveOffset: the horizontal offset whatever the direction.
moveOffset_alwaysX(d, dx, dy) == dx

\* direction === 'x' ? dx : dy
moveOffset(d, dx, dy) == IF d = "x" THEN dx ELSE dy

\* direction === 'x' ? dx > 0 ? 'slideright' : 'slideleft' : dy > 0 ? 'slidedown' : 'slideup'
slideAction(d, dx, dy) ==
    IF d = "x"
    THEN IF dx > 0 THEN "slideright" ELSE "slideleft"
    ELSE IF dy > 0 THEN "slidedown" ELSE "slideup"

\* Mutant of arrowAction: the threshold compared with <= instead of <.
arrowAction_inclusive(d, dx, dy) ==
    LET offset == IF d = "x" THEN dx ELSE IF d = "y" THEN dy ELSE 0
        minDistanceArrow == IF d = "x" THEN minDistanceX ELSE minDistanceY
    IN  IF Abs(offset) <= minDistanceArrow
        THEN cancelAction(d)
        ELSE slideAction(d, dx, dy)

\* The action touchEndHandler triggers for a locked direction d.
arrowAction(d, dx, dy) ==
    LET offset == IF d = "x" THEN dx ELSE IF d = "y" THEN dy ELSE 0
        minDistanceArrow == IF d = "x" THEN minDistanceX ELSE minDistanceY
    IN  IF Abs(offset) < minDistanceArrow
        THEN cancelAction(d)
        ELSE slideAction(d, dx, dy)

\* The listener map: every on* method has been used to subscribe.
listeners == ActionNames

\* trigger(action, offset): the listeners of the action, if it has any, are
\* invoked with the offset.
trigger(action, offset) ==
    IF action \in listeners
    THEN <<[action |-> action, offset |-> offset]>>
    ELSE <<>>

\* Mutant of invoke: the listeners run after the handler has discarded the
\* session.
invoke_afterReset(f, sp, lp, d) ==
    /\ fired' = f
    /\ seen' = IF fired' = <<>> THEN <<>>
               ELSE <<[startSet |-> FALSE, lastPos |-> Null, direction |-> Null]>>

\* The listener invocations of one handler run: f is what its trigger call
\* invokes, and sp, lp, d are the closure's startPos, lastPos and direction
\* at the moment of that call (whether startPos is set, lastPos, direction).
invoke(f, sp, lp, d) ==
    /\ fired' = f
    /\ seen' = IF fired' = <<>>
               THEN <<>>
               ELSE <<[startSet |-> sp # Null, lastPos |-> lp, direction |-> d]>>

\* A handler run that calls trigger not at all.
invokeNothing ==
    /\ fired' = <<>>
    /\ seen' = <<>>

\* Mutant of touchStartHandler: a locked direction survives the new start.
touchStartHandler_keepsLock(x, y) ==
    /\ startPos' = <<x, y>>
    /\ lastPos' = <<x, y>>
    /\ UNCHANGED direction
    /\ invokeNothing
    /\ exceeded' = FALSE
    /\ moved' = FALSE

touchStartHandler(x, y) ==
    /\ startPos' = <<x, y>>
    /\ lastPos' = <<x, y>>
    /\ direction' = Null
    /\ invokeNothing
    /\ exceeded' = FALSE
    /\ moved' = FALSE

\* Mutant of touchCancelHandler: a cancel without a locked direction is
\* reported too, as both cancel actions.
touchCancelHandler_both ==
    /\ invoke(IF direction # Null
              THEN trigger(cancelAction(direction), Null)
              ELSE trigger("cancelx", Null) \o trigger("cancely", Null),
              startPos, lastPos, direction)
    /\ startPos' = Null
    /\ lastPos' = Null
    /\ direction' = Null
    /\ exceeded' = FALSE
    /\ moved' = FALSE

touchCancelHandler ==
    /\ invoke(IF direction # Null
              THEN trigger(cancelAction(direction), Null)
              ELSE <<>>,
              startPos, lastPos, direction)
    /\ startPos' = Null
    /\ lastPos' = Null
    /\ direction' = Null
    /\ exceeded' = FALSE
    /\ moved' = FALSE

\* Mutant of touchMoveHandler: the direction is calculated again on every
\* move (the direction === null test left out).
touchMoveHandler_relock(x, y) ==
    IF startPos = Null
    THEN /\ invokeNothing
         /\ UNCHANGED <<gesture, history>>
    ELSE LET dx == x - startPos[1]
             dy == y - startPos[2]
             d == calculateDirection(dx, dy)
         IN  /\ lastPos' = <<x, y>>
             /\ direction' = d
             /\ invoke(IF d # Null
                       THEN trigger(moveAction(d), moveOffset(d, dx, dy))
                       ELSE <<>>,
                       startPos, <<x, y>>, d)
             /\ exceeded' = (exceeded \/ dx * dx + dy * dy > minDistance * minDistance)
             /\ moved' = (moved \/ fired' # <<>>)
             /\ UNCHANGED startPos

touchMoveHandler(x, y) ==
    IF startPos = Null
    THEN /\ invokeNothing
         /\ UNCHANGED <<gesture, history>>
    ELSE LET dx == x - startPos[1]
             dy == y - startPos[2]
             d == IF direction = Null THEN calculateDirection(dx, dy) ELSE direction
         IN  /\ lastPos' = <<x, y>>
             /\ direction' = d
             /\ invoke(IF d # Null
                       THEN trigger(moveAction(d), moveOffset(d, dx, dy))
                       ELSE <<>>,
                       startPos, <<x, y>>, d)
             /\ exceeded' = (exceeded \/ dx * dx + dy * dy > minDistance * minDistance)
             /\ moved' = (moved \/ fired' # <<>>)
             /\ UNCHANGED startPos

\* Mutant of touchEndHandler: the missing-position test is gone and an end
\* without a start is classified as a tap.
touchEndHandler_noGuard ==
    /\ invoke(IF direction = Null
              THEN trigger("touch", Null)
              ELSE trigger(arrowAction(direction, lastPos[1] - startPos[1],
                                       lastPos[2] - startPos[2]), Null),
              startPos, lastPos, direction)
    /\ startPos' = Null
    /\ lastPos' = Null
    /\ direction' = Null
    /\ exceeded' = FALSE
    /\ moved' = FALSE

touchEndHandler ==
    IF lastPos = Null \/ startPos = Null
    THEN touchCancelHandler
    ELSE LET dx == lastPos[1] - startPos[1]
             dy == lastPos[2] - startPos[2]
         IN  /\ invoke(IF direction = Null
                       THEN trigger(tapAction(startPos[1]), Null)
                       ELSE trigger(arrowAction(direction, dx, dy), Null),
                       startPos, lastPos, direction)
             /\ startPos' = Null
             /\ lastPos' = Null
             /\ direction' = Null
             /\ exceeded' = FALSE
             /\ moved' = FALSE

(***************************************************************************)
(* TouchMoveListener: the pointer normalizer                               *)
(***************************************************************************)

\* triggerCallback(type, x, y): the callbacks registered for the type run;
\* the classifier registered one closure per type.
triggerCallback(type, x, y) ==
    /\ signals' = <<[type |-> type, x |-> x, y |-> y]>>
    /\ wasOpen' = sessionOpen
    /\ sessionOpen' = CASE type = "start" -> TRUE
                        [] type = "move" -> sessionOpen
                        [] type \in {"end", "cancel"} -> FALSE
    /\ CASE type = "start" -> touchStartHandler(x, y)
         [] type = "move" -> touchMoveHandler(x, y)
         [] type = "end" -> touchEndHandler
         [] type = "cancel" -> touchCancelHandler

\* A handler that returns without calling triggerCallback.
noCallback ==
    /\ signals' = <<>>
    /\ invokeNothing
    /\ wasOpen' = FALSE
    /\ UNCHANGED <<gesture, history, sessionOpen>>

\* One document.addEventListener / removeEventListener triple of a modality.
call(op, modality) == [op |-> op, modality |-> modality]

\* A handler run that neither adds nor removes document listeners.
noCalls == calls' = <<>> /\ UNCHANGED documentListeners

addGlobalMouseHandlers ==
    /\ documentListeners' = documentListeners \cup MouseEvents
    /\ calls' = <<call("add", "mouse")>>

\* Mutant of removeGlobalMouseHandlers: the mousemove listener is left behind.
removeGlobalMouseHandlers_leavesMove ==
    /\ documentListeners' = documentListeners \ {"mouseup", "mouseleave"}
    /\ calls' = <<call("remove", "mouse")>>

removeGlobalMouseHandlers ==
    /\ documentListeners' = documentListeners \ MouseEvents
    /\ calls' = <<call("remove", "mouse")>>

addGlobalTouchHandlers ==
    /\ documentListeners' = documentListeners \cup TouchEvents
    /\ calls' = <<call("add", "touch")>>

removeGlobalTouchHandlers ==
    /\ documentListeners' = documentListeners \ TouchEvents
    /\ calls' = <<call("remove", "touch")>>

\* Mutant of mouseDownHandler: the suppressed mouse-down leaves touchStart set.
mouseDownHandler_sticky(x, y) ==
    IF touchStart
    THEN /\ noCallback
         /\ noCalls
         /\ UNCHANGED <<mouseDown, touchStart, touchActive>>
    ELSE /\ mouseDown' = TRUE
         /\ triggerCallback("start", x, y)
         /\ addGlobalMouseHandlers
         /\ UNCHANGED <<touchStart, touchActive>>

mouseDownHandler(x, y) ==
    IF touchStart
    THEN /\ touchStart' = FALSE
         /\ noCallback
         /\ noCalls
         /\ UNCHANGED <<mouseDown, touchActive>>
    ELSE /\ mouseDown' = TRUE
         /\ triggerCallback("start", x, y)
         /\ addGlobalMouseHandlers
         /\ UNCHANGED <<touchStart, touchActive>>

mouseUpHandler ==
    /\ IF mouseDown THEN triggerCallback("end", Null, Null) ELSE noCallback
    /\ mouseDown' = FALSE
    /\ removeGlobalMouseHandlers
    /\ UNCHANGED <<touchStart, touchActive>>

mouseCancelHandler ==
    /\ IF mouseDown THEN triggerCallback("end", Null, Null) ELSE noCallback
    /\ mouseDown' = FALSE
    /\ removeGlobalMouseHandlers
    /\ UNCHANGED <<touchStart, touchActive>>

mouseMoveHandler(x, y) ==
    /\ IF mouseDown THEN triggerCallback("move", x, y) ELSE noCallback
    /\ noCalls
    /\ UNCHANGED <<mouseDown, touchStart, touchActive>>

elementTouchStartHandler(x, y) ==
    /\ touchStart' = TRUE
    /\ triggerCallback("start", x, y)
    /\ addGlobalTouchHandlers
    /\ touchActive' = TRUE
    /\ UNCHANGED mouseDown

documentTouchEndHandler ==
    /\ IF touchStart THEN triggerCallback("end", Null, Null) ELSE noCallback
    /\ removeGlobalTouchHandlers
    /\ touchActive' = FALSE
    /\ UNCHANGED <<mouseDown, touchStart>>

documentTouchCancelHandler ==
    /\ IF touchStart THEN triggerCallback("cancel", Null, Null) ELSE noCallback
    /\ removeGlobalTouchHandlers
    /\ touchActive' = FALSE
    /\ UNCHANGED <<mouseDown, touchStart>>

documentTouchMoveHandler(x, y) ==
    /\ IF touchStart THEN triggerCallback("move", x, y) ELSE noCallback
    /\ noCalls
    /\ UNCHANGED <<mouseDown, touchStart, touchActive>>

\* An event no registered listener receives: no handler runs, and nothing
\* of the program changes.
notDelivered ==
    UNCHANGED <<gesture, history, mouseDown, touchStart, documentListeners,
                event, signals, fired, seen, sessionOpen, wasOpen, touchActive, calls>>

(***************************************************************************)
(* The DOM events and the teardown call.  An event reaches its handler     *)
(* only while the handler is registered on the element or the document.    *)
(***************************************************************************)

MouseDown ==
    /\ IF "mousedown" \in elementListeners
       THEN event' = "mousedown" /\ \E x \in Xs, y \in Ys : mouseDownHandler(x, y)
       ELSE notDelivered
    /\ UNCHANGED <<config, elementListeners, disposed, slider>>

TouchStart ==
    /\ IF "touchstart" \in elementListeners
       THEN event' = "touchstart" /\ \E x \in Xs, y \in Ys : elementTouchStartHandler(x, y)
       ELSE notDelivered
    /\ UNCHANGED <<config, elementListeners, disposed, slider>>

MouseUp ==
    /\ IF "mouseup" \in documentListeners
       THEN event' = "mouseup" /\ mouseUpHandler
       ELSE notDelivered
    /\ UNCHANGED <<config, elementListeners, disposed, slider>>

MouseLeave ==
    /\ IF "mouseleave" \in documentListeners
       THEN event' = "mouseleave" /\ mouseCancelHandler
       ELSE notDelivered
    /\ UNCHANGED <<config, elementListeners, disposed, slider>>

MouseMove ==
    /\ IF "mousemove" \in documentListeners
       THEN event' = "mousemove" /\ \E x \in Xs, y \in Ys : mouseMoveHandler(x, y)
       ELSE notDelivered
    /\ UNCHANGED <<config, elementListeners, disposed, slider>>

TouchEnd ==
    /\ IF "touchend" \in documentListeners
       THEN event' = "touchend" /\ documentTouchEndHandler
       ELSE notDelivered
    /\ UNCHANGED <<config, elementListeners, disposed, slider>>

TouchCancel ==
    /\ IF "touchcancel" \in documentListeners
       THEN event' = "touchcancel" /\ documentTouchCancelHandler
       ELSE notDelivered
    /\ UNCHANGED <<config, elementListeners, disposed, slider>>

TouchMove ==
    /\ IF "touchmove" \in documentListeners
       THEN event' = "touchmove" /\ \E x \in Xs, y \in Ys : documentTouchMoveHandler(x, y)
       ELSE notDelivered
    /\ UNCHANGED <<config, elementListeners, disposed, slider>>

\* Mutant of dispatch: the document-scoped touch listeners are left registered.
dispatch_keepsTouch ==
    /\ event' = "dispatch"
    /\ elementListeners' = (elementListeners \ {"mousedown"}) \ {"touchstart"}
    /\ documentListeners' = documentListeners \ MouseEvents
    /\ calls' = <<call("remove", "mouse")>>
    /\ disposed' = TRUE
    /\ noCallback
    /\ touchActive' = FALSE
    /\ UNCHANGED <<config, mouseDown, touchStart, slider>>

\* TouchGestureListener.dispatch -> TouchMoveListener.dispatch
dispatch ==
    /\ event' = "dispatch"
    /\ elementListeners' = (elementListeners \ {"mousedown"}) \ {"touchstart"}
    /\ documentListeners' = (documentListeners \ MouseEvents) \ TouchEvents
    /\ calls' = <<call("remove", "mouse"),
                  call("remove", "touch")>>
    /\ disposed' = TRUE
    /\ noCallback
    /\ touchActive' = FALSE
    /\ UNCHANGED <<config, mouseDown, touchStart, slider>>

(***************************************************************************)
(* RangeInput: the slider                                                  *)
(***************************************************************************)

\* Largest max and step of the configurations the constructor is given.
MaxRange == 4
MaxStep == 3

\* this.track.clientWidth and the x of the track's client rectangle, in
\* pixels.  The width is a power of two, so every ratio clientX / width is
\* exact in double arithmetic.
trackWidth == 4
trackLeft == 1

\* Longest run of keydown events with event.repeat set.
MaxRepeat == 2

\* The values setValue is called with, and the config.value of a
\* configuration that has one.
Values == -1..(MaxRange + 1)

\* The configurations passed to the constructor and to setConfig, min >= max
\* and step = 0 included.  value is <<>> for a configuration without a value
\* and <<v>> for the value v.
RawConfigs ==
    {[min |-> a, max |-> b, step |-> s, value |-> v] :
        a \in 0..1, b \in 0..MaxRange, s \in 0..MaxStep,
        v \in {<<>>} \cup {<<n>> : n \in Values}}

\* The pageX of the pointer: from left of the track to right of it.
PageXs == 0..(trackLeft + trackWidth + 1)

\* The ratio of the key table for event.code: ArrowUp/ArrowRight,
\* ArrowDown/ArrowLeft, PageUp, PageDown, and 0 for any other key.
KeyRatios == {1, -1, 10, -10, 0}

\* this.repeatCount: never assigned by the constructor, a number after a
\* keydown, and NaN after undefined++.
undefined == [kind |-> "undefined", n |-> 0]
NaN == [kind |-> "NaN", n |-> 0]
Count(n) == [kind |-> "number", n |-> n]

RECURSIVE Power(_, _)
Power(b, n) == IF n = 0 THEN 1 ELSE b * Power(b, n - 1)

\* Math.round(a / b) for integers a >= 0 and b > 0: the nearest integer,
\* a half rounded up.
Round(a, b) == (2 * a + b) \div (2 * b)

normalizeConfig(c) ==
    LET invalid == c.min >= c.max
    IN  [min |-> IF invalid THEN 0 ELSE c.min,
         max |-> IF invalid THEN 1 ELSE c.max,
         step |-> IF c.step <= 0 THEN 1 ELSE c.step]

\* normalizeValue(config) by config.value: <<>> for a value that is not
\* finite (undefined, NaN), <<num, den>> for the number num / den, den > 0.
\* It reads this.config.
normalizeValue(v) ==
    IF v = <<>> THEN rangeConfig.min
    ELSE IF v[1] <= rangeConfig.min * v[2] THEN rangeConfig.min
    ELSE IF v[1] >= rangeConfig.max * v[2] THEN rangeConfig.max
    ELSE Round(v[1] - rangeConfig.min * v[2], v[2] * rangeConfig.step) * rangeConfig.step
         + rangeConfig.min

\* Math.min(config.max, Math.max(config.min,
\*   Math.round((config.max - config.min) * ratio / config.step) * config.step + config.min))
\* for ratio = n / trackWidth.
stepRounded(n) ==
    Min(rangeConfig.max,
        Max(rangeConfig.min,
            Round((rangeConfig.max - rangeConfig.min) * n, trackWidth * rangeConfig.step)
                * rangeConfig.step + rangeConfig.min))

\* The pos setRatio computes for ratio = n / trackWidth:
\*   if (ratio === 1) pos = config.max;
\*   if (ratio === 0) pos = config.min; else { pos = <the rounded step> }
\* The else belongs to the second if, so for a ratio of 1 the first
\* assignment is overwritten.
setRatioPos(n) ==
    LET pos1 == IF n = trackWidth THEN rangeConfig.max ELSE Null
    IN  IF n = 0 THEN rangeConfig.min ELSE stepRounded(n)

\* async updateValue(newValue), up to its await.
updateValue(newValue) ==
    /\ lastCall' = <<newValue>>
    /\ emitted' = <<>>
    /\ UNCHANGED <<rangeConfig, value, keydownListener>>
    /\ IF value = newValue
       THEN UNCHANGED <<updatePendingValue, rafCallbacks>>
       ELSE IF updatePendingValue # <<>>
       THEN /\ updatePendingValue' = <<newValue>>
            /\ UNCHANGED rafCallbacks
       ELSE /\ updatePendingValue' = <<newValue>>
            /\ rafCallbacks' = rafCallbacks + 1

setRatio(n) ==
    /\ ratioCalls' = <<[ratio |-> n, pos |-> setRatioPos(n)]>>
    /\ updateValue(setRatioPos(n))

\* The callback of onTouchStart and onTouchMove: the ratio is clamped to
\* [0, 1], here n / trackWidth with n in 0..trackWidth.
mouseMove(pageX) ==
    LET clientX == pageX - trackLeft
    IN  /\ keydownListener
        /\ setRatio(Min(Max(0, clientX), trackWidth))
        /\ UNCHANGED repeatCount

\* this.value + move of keyboardHandler as <<num, den>>, for the key ratio r
\* and the repeat count n:
\*   base = 1.2 ** n; total = (max - min) / step;
\*   move = Math.min(base, total / 50) * r * step
keyTarget(r, n) ==
    LET range == rangeConfig.max - rangeConfig.min
        baseSmaller == Power(6, n) * 50 * rangeConfig.step < range * Power(5, n)
    IN  IF baseSmaller
        THEN <<value * Power(5, n) + Power(6, n) * r * rangeConfig.step, Power(5, n)>>
        ELSE <<50 * value + range * r, 50>>

\* keyboardHandler for a keydown with event.repeat = repeat and a key whose
\* ratio in the table is r (0: the key is not in the table).  While
\* this.repeatCount is NaN, base, move and value are NaN and normalizeValue
\* returns config.min.
keyboardHandler(repeat, r) ==
    /\ keydownListener
    /\ repeatCount' = IF ~repeat THEN Count(0)
                      ELSE IF repeatCount.kind = "number" THEN Count(repeatCount.n + 1)
                      ELSE NaN
    /\ ratioCalls' = <<>>
    /\ IF r = 0
       THEN /\ emitted' = <<>>
            /\ UNCHANGED <<rangeConfig, value, updatePendingValue, rafCallbacks,
                           lastCall, keydownListener>>
       ELSE updateValue(normalizeValue(IF repeatCount'.kind = "NaN" THEN <<>>
                                       ELSE keyTarget(r, repeatCount'.n)))

\* setConfig(config): the value is normalised against the new this.config;
\* a pending value and its waiting callback stay as they are.
setConfig(c) ==
    /\ rangeConfig' = normalizeConfig(c)
    /\ value' = normalizeValue(IF c.value = <<>> THEN <<>> ELSE <<c.value[1], 1>>)'
    /\ emitted' = <<>>
    /\ ratioCalls' = <<>>
    /\ UNCHANGED <<updatePendingValue, rafCallbacks, lastCall, repeatCount, keydownListener>>

setValue(v) ==
    /\ value' = normalizeValue(<<v, 1>>)
    /\ emitted' = <<>>
    /\ ratioCalls' = <<>>
    /\ UNCHANGED <<rangeConfig, updatePendingValue, rafCallbacks, lastCall,
                   repeatCount, keydownListener>>

\* The rest of updateValue after its await, for every call that waits: the
\* first takes the pending value and clears the slot, a later one would find
\* it cleared.
resumed(i) == IF i = 1 THEN updatePendingValue ELSE <<>>

requestAnimationFrame ==
    /\ rafCallbacks > 0
    /\ rafCallbacks' = 0
    /\ updatePendingValue' = <<>>
    /\ emitted' = [i \in 1..rafCallbacks |-> resumed(i)]
    /\ value' = IF rafCallbacks = 1 /\ updatePendingValue # <<>>
                THEN updatePendingValue[1] ELSE value
    /\ ratioCalls' = <<>>
    /\ UNCHANGED <<rangeConfig, lastCall, repeatCount, keydownListener>>

\* RangeInput dispatch(): the pointer listener and the keydown listener are
\* removed; a waiting updateValue call still resumes.
removeListeners ==
    /\ keydownListener
    /\ keydownListener' = FALSE
    /\ emitted' = <<>>
    /\ ratioCalls' = <<>>
    /\ UNCHANGED <<rangeConfig, value, updatePendingValue, rafCallbacks, lastCall,
                   repeatCount>>

\* The state after new RangeInput(outer, rawConfig): the constructor calls
\* setConfig and attaches the listeners.
newRangeInput(rawConfig) ==
    /\ rangeConfig = normalizeConfig(rawConfig)
    /\ value = normalizeValue(IF rawConfig.value = <<>> THEN <<>>
                              ELSE <<rawConfig.value[1], 1>>)
    /\ updatePendingValue = <<>>
    /\ rafCallbacks = 0
    /\ emitted = <<>>
    /\ lastCall = <<>>
    /\ ratioCalls = <<>>
    /\ repeatCount = undefined
    /\ keydownListener = TRUE

\* The state after new TouchGestureListener(targetElement, options).
newTouchGestureListener ==
    /\ minDistanceX \in MinDistanceChoices
    /\ minDistanceY \in MinDistanceChoices
    /\ clickParts \in ClickPartsChoices
    /\ startPos = Null
    /\ lastPos = Null
    /\ direction = Null
    /\ mouseDown = FALSE
    /\ touchStart = FALSE
    /\ elementListeners = ElementEvents
    /\ documentListeners = {}
    /\ disposed = FALSE
    /\ event = "new"
    /\ signals = <<>>
    /\ fired = <<>>
    /\ exceeded = FALSE
    /\ moved = FALSE
    /\ seen = <<>>
    /\ sessionOpen = FALSE
    /\ wasOpen = FALSE
    /\ touchActive = FALSE
    /\ calls = <<>>

\* A gesture listener, and a slider nobody touches.
Init ==
    /\ newTouchGestureListener
    /\ newRangeInput([min |-> 0, max |-> 1, step |-> 1, value |-> <<>>])

Next ==
    \/ MouseDown
    \/ TouchStart
    \/ MouseUp
    \/ MouseLeave
    \/ MouseMove
    \/ TouchEnd
    \/ TouchCancel
    \/ TouchMove
    \/ dispatch

Spec == Init /\ [][Next]_vars

(***************************************************************************)
(* The slider's specification: pointer positions, keys, setValue and       *)
(* setConfig calls, animation frames and the slider's dispatch in any      *)
(* order, beside a gesture listener left alone.                            *)
(***************************************************************************)

PointerMove == (\E pageX \in PageXs : mouseMove(pageX)) /\ UNCHANGED touch

KeyDown ==
    /\ \E repeat \in BOOLEAN, r \in KeyRatios :
          /\ repeat /\ repeatCount.kind = "number" => repeatCount.n < MaxRepeat
          /\ keyboardHandler(repeat, r)
    /\ UNCHANGED touch

SetValue == (\E v \in Values : setValue(v)) /\ UNCHANGED touch

\* updateValue is a public method: the owner calls it with any number.
UpdateValue ==
    /\ \E v \in Values : updateValue(v)
    /\ ratioCalls' = <<>>
    /\ UNCHANGED repeatCount
    /\ UNCHANGED touch

SetConfig == (\E c \in RawConfigs : setConfig(c)) /\ UNCHANGED touch

AnimationFrame == requestAnimationFrame /\ UNCHANGED touch

RemoveListeners == removeListeners /\ UNCHANGED touch

SliderInit ==
    /\ newTouchGestureListener
    /\ minDistanceX = 2 /\ minDistanceY = 2 /\ clickParts = 2
    /\ \E rawConfig \in RawConfigs : newRangeInput(rawConfig)

SliderNext ==
    \/ PointerMove
    \/ KeyDown
    \/ SetValue
    \/ UpdateValue
    \/ SetConfig
    \/ AnimationFrame
    \/ RemoveListeners

SliderSpec == SliderInit /\ [][SliderNext]_vars

(***************************************************************************)
(* Properties                                                              *)
(***************************************************************************)

\* The signal the last step passed to triggerCallback, "none" if none.
signalType(sigs) == IF sigs = <<>> THEN "none" ELSE sigs[1].type

Action(name) == [action |-> name, offset |-> Null]

\* C1: an `end` that arrives with positions present and the axis locked fires
\* exactly one action: the cancel action of the locked axis when the offset
\* along that axis is shorter than the axis' threshold, otherwise the slide
\* action given by the sign of the offset (x: right/left, y: down/up).
C1_EndOfLockedSession ==
    [][(/\ signalType(signals') = "end"
        /\ startPos # Null /\ lastPos # Null /\ direction # Null)
       => LET dx == lastPos[1] - startPos[1]
              dy == lastPos[2] - startPos[2]
          IN  /\ (direction = "x" /\ Abs(dx) < minDistanceX) => fired' = <<Action("cancelx")>>
              /\ (direction = "y" /\ Abs(dy) < minDistanceY) => fired' = <<Action("cancely")>>
              /\ (direction = "x" /\ dx >= minDistanceX) => fired' = <<Action("slideright")>>
              /\ (direction = "x" /\ -dx >= minDistanceX) => fired' = <<Action("slideleft")>>
              /\ (direction = "y" /\ dy >= minDistanceY) => fired' = <<Action("slidedown")>>
              /\ (direction = "y" /\ -dy >= minDistanceY) => fired' = <<Action("slideup")>>
      ]_vars

\* A horizontal drag that was long enough has just ended in slide-left.
C1_Witness ==
    /\ signalType(signals) = "end"
    /\ fired = <<Action("slideleft")>>

\* C2: an `end` of a session in which no move went past minDistance, started
\* at a pageX inside [0, innerWidth), fires exactly one touch action: the one
\* of the zone floor(x0 * clickParts / innerWidth) for 2 or 3 click parts, the
\* generic touch for any other number of parts.
C2_TapZone ==
    [][(/\ signalType(signals') = "end"
        /\ startPos # Null /\ lastPos # Null /\ ~exceeded
        /\ startPos[1] \in 0..(innerWidth - 1))
       => LET x0 == startPos[1]
          IN  /\ Len(fired') = 1
              /\ fired'[1].offset = Null
              /\ clickParts \notin {2, 3} => fired'[1].action = "touch"
              /\ clickParts = 2 =>
                    fired'[1].action =
                        IF 2 * x0 < innerWidth THEN "touchleft" ELSE "touchright"
              /\ clickParts = 3 =>
                    fired'[1].action =
                        IF 3 * x0 < innerWidth THEN "touchleft"
                        ELSE IF 3 * x0 < 2 * innerWidth THEN "touchmiddle"
                        ELSE "touchright"
      ]_vars

\* A touch session that never locked a direction ended as a tap in the
\* middle zone of three.
C2_Witness ==
    /\ signalType(signals) = "end"
    /\ event = "touchend"
    /\ clickParts = 3
    /\ fired = <<Action("touchmiddle")>>

\* C3: the direction is null until a move of the session has a displacement
\* from startPos longer than minDistance; it is set only by such a move, and
\* once it is 'x' or 'y' no later move of the session changes it.
C3_AxisLockedOnce ==
    [][/\ (direction = Null /\ direction' # Null)
          => /\ signalType(signals') = "move"
             /\ startPos # Null /\ startPos' = startPos
             /\ (signals'[1].x - startPos[1]) * (signals'[1].x - startPos[1])
                + (signals'[1].y - startPos[2]) * (signals'[1].y - startPos[2])
                > minDistance * minDistance
       /\ (direction # Null /\ signalType(signals') \in {"move", "none"})
          => direction' = direction
       /\ direction' # Null => exceeded'
      ]_vars

\* A drag locked to 'x' whose last move came back to within minDistance of
\* the start, on the vertical through it.
C3_Witness ==
    /\ signalType(signals) = "move"
    /\ direction = "x"
    /\ lastPos[1] = startPos[1]
    /\ Abs(lastPos[2] - startPos[2]) = 1

\* C4: a move in an active session fires nothing when the direction is still
\* null after it (not locked before and displacement within minDistance), and
\* otherwise exactly one move action: movex with dx = x - startPos.x when the
\* direction is 'x', movey with dy = y - startPos.y when it is 'y'.
C4_MoveAction ==
    [][(signalType(signals') = "move" /\ startPos # Null)
       => LET dx == signals'[1].x - startPos[1]
              dy == signals'[1].y - startPos[2]
          IN  /\ direction' = Null
                    <=> (direction = Null /\ dx * dx + dy * dy <= minDistance * minDistance)
              /\ direction' = Null => fired' = <<>>
              /\ direction' = "x" => fired' = <<[action |-> "movex", offset |-> dx]>>
              /\ direction' = "y" => fired' = <<[action |-> "movey", offset |-> dy]>>
      ]_vars

\* A vertical drag upwards reports a negative offset.
C4_Witness ==
    /\ signalType(signals) = "move"
    /\ direction = "y"
    /\ fired = <<[action |-> "movey", offset |-> lastPos[2] - startPos[2]]>>
    /\ lastPos[2] < startPos[2]
    /\ lastPos[1] # startPos[1]

\* C5: a `cancel` on an active session fires exactly cancelx when the
\* direction is 'x', exactly cancely when it is 'y', nothing when it is null,
\* and leaves startPos, lastPos and direction all null.
C5_CancelActive ==
    [][(signalType(signals') = "cancel" /\ startPos # Null)
       => /\ direction = "x" => fired' = <<Action("cancelx")>>
          /\ direction = "y" => fired' = <<Action("cancely")>>
          /\ direction = Null => fired' = <<>>
          /\ startPos' = Null /\ lastPos' = Null /\ direction' = Null
      ]_vars

\* A touch drag locked to 'y' has just been cancelled.
C5_Witness ==
    /\ signalType(signals) = "cancel"
    /\ fired = <<Action("cancely")>>
    /\ startPos = Null /\ lastPos = Null /\ direction = Null
HorizontalActions == {"movex", "cancelx", "slideleft", "slideright"}
VerticalActions == {"movey", "cancely", "slideup", "slidedown"}
TouchActions == {"touch", "touchleft", "touchmiddle", "touchright"}

firedNames(f) == {f[i].action : i \in 1..Len(f)}

\* C6: while a session is locked to 'x' (from the move that locks it to the
\* signal that ends it) every action fired is one of movex, cancelx,
\* slideleft, slideright; while it is locked to 'y', one of movey, cancely,
\* slideup, slidedown; and a touch action is fired only by a session in
\* which no move action was fired.
C6_ActionsFollowAxis ==
    [][/\ (direction = "x" \/ direction' = "x") => firedNames(fired') \subseteq HorizontalActions
       /\ (direction = "y" \/ direction' = "y") => firedNames(fired') \subseteq VerticalActions
       /\ firedNames(fired') \cap TouchActions # {} => (~moved /\ direction = Null)
       /\ moved => direction # Null
      ]_vars

\* A session locked to 'y' whose pointer has since moved mainly along the
\* horizontal still fires movey.
C6_Witness ==
    /\ signalType(signals) = "move"
    /\ direction = "y"
    /\ moved
    /\ Abs(lastPos[1] - startPos[1]) > Abs(lastPos[2] - startPos[2])
    /\ firedNames(fired) = {"movey"}

\* C7: while startPos and lastPos are unset the direction is unset too, and a
\* move, end or cancel then fires no action and leaves all three unset.
C7_IdleAbsorbs ==
    /\ []((startPos = Null \/ lastPos = Null)
             => (startPos = Null /\ lastPos = Null /\ direction = Null))
    /\ [][(signalType(signals') \in {"move", "end", "cancel"} /\ startPos = Null)
             => (fired' = <<>> /\ UNCHANGED gesture)
         ]_vars

\* A move reached the classifier while it was idle (a mouse button is still
\* held after a touch ended the session) and was absorbed.
C7_Witness ==
    /\ signalType(signals) = "move"
    /\ event = "mousemove"
    /\ fired = <<>>
    /\ startPos = Null /\ lastPos = Null /\ direction = Null

\* C8: every step passes at most one signal to the classifier and fires at
\* most one action, which is one of the twelve action names; a start fires
\* none.
C8_AtMostOneAction ==
    /\ Len(signals) <= 1
    /\ Len(fired) <= 1
    /\ firedNames(fired) \subseteq ActionNames
    /\ signals = <<>> => fired = <<>>
    /\ signalType(signals) = "start" => fired = <<>>

\* A mouse session left the document and its end fired the one action touchright.
C8_Witness ==
    /\ Len(signals) = 1
    /\ signalType(signals) = "end"
    /\ event = "mouseleave"
    /\ fired = <<Action("touchright")>>

\* C9: once dispatch has been called no listener is registered on the
\* element or the document, no step passes a signal or fires an action, and
\* no step (a second dispatch included) changes the listeners, the flags or
\* the session; the dispatch step itself passes no signal, fires no action
\* and leaves the session as it was.
C9_Teardown ==
    [][/\ disposed' => /\ elementListeners' = {}
                       /\ documentListeners' = {}
                       /\ signals' = <<>>
                       /\ fired' = <<>>
       /\ event' = "dispatch" => UNCHANGED gesture
       /\ disposed => UNCHANGED <<gesture, mouseDown, touchStart,
                                  elementListeners, documentListeners, disposed>>
      ]_vars

\* dispatch was called in the middle of a locked touch drag: no listener is
\* left and the session is still there.
C9_Witness ==
    /\ disposed
    /\ event = "dispatch"
    /\ elementListeners = {} /\ documentListeners = {}
    /\ touchStart
    /\ direction = "x"
    /\ startPos # Null

\* C10: every release that reaches its handler (mouseup or mouseleave of a
\* mouse session, touchend of a touch session) passes exactly one end signal,
\* a touchcancel passes exactly one cancel signal, and afterwards the document
\* listeners of that modality are gone.
C10_ReleaseEndsSession ==
    [][/\ event' \in {"mouseup", "mouseleave"}
          => /\ Len(signals') = 1 /\ signals'[1].type = "end"
             /\ documentListeners' \cap MouseEvents = {}
       /\ event' = "touchend"
          => /\ Len(signals') = 1 /\ signals'[1].type = "end"
             /\ documentListeners' \cap TouchEvents = {}
       /\ event' = "touchcancel"
          => /\ Len(signals') = 1 /\ signals'[1].type = "cancel"
             /\ documentListeners' \cap TouchEvents = {}
      ]_vars

\* C11: every move, end and cancel the normalizer passes on comes after a
\* start, with no end or cancel between that start and it.
C11_SignalsInsideSession ==
    signalType(signals) \in {"move", "end", "cancel"} => wasOpen

\* A mouse session and a touch session are in progress: the mouse button is
\* down, a touch has started and not ended, and both have their document
\* listeners.
bothModalities ==
    /\ mouseDown /\ MouseEvents \subseteq documentListeners
    /\ touchActive /\ TouchEvents \subseteq documentListeners

\* C12: a mouse session and a touch session are never in progress at the
\* same time.
C12_OneModality == ~bothModalities

\* C13 as stated: with no mouse button held and no touch in progress a
\* mousedown or touchstart on the element passes exactly one start and
\* registers its document listeners, and a mousedown is ignored only while a
\* touch session is in progress.
C13_IgnoredOnlyDuringTouch ==
    [][/\ (event' \in {"mousedown", "touchstart"} /\ ~mouseDown /\ ~touchActive)
          => /\ signalType(signals') = "start"
             /\ (IF event' = "mousedown" THEN MouseEvents ELSE TouchEvents)
                   \subseteq documentListeners'
       /\ (event' = "mousedown" /\ signals' = <<>>) => touchActive
      ]_vars

\* C13 amended: a touchstart always passes exactly one start with its
\* coordinates, registers the document touch listeners and sets touchStart;
\* a mousedown passes exactly one start with its coordinates and registers
\* the document mouse listeners when touchStart is clear, and is ignored when
\* touchStart is set, whether or not a touch is still in progress; touchStart
\* is set only by a touchstart and cleared only by the mousedown it
\* suppresses (one-shot).
C13_OneShotSuppression ==
    [][/\ event' = "touchstart"
          => /\ Len(signals') = 1 /\ signals'[1].type = "start"
             /\ startPos' = <<signals'[1].x, signals'[1].y>>
             /\ TouchEvents \subseteq documentListeners'
             /\ touchStart'
       /\ (event' = "mousedown" /\ ~touchStart)
          => /\ Len(signals') = 1 /\ signals'[1].type = "start"
             /\ startPos' = <<signals'[1].x, signals'[1].y>>
             /\ MouseEvents \subseteq documentListeners'
             /\ mouseDown'
       /\ (event' = "mousedown" /\ touchStart)
          => /\ signals' = <<>> /\ fired' = <<>>
             /\ ~touchStart'
             /\ UNCHANGED <<gesture, mouseDown, documentListeners>>
       /\ (touchStart /\ ~touchStart') => event' = "mousedown"
       /\ (~touchStart /\ touchStart') => event' = "touchstart"
      ]_vars

\* A mousedown was ignored although no session was in progress: the touch
\* that set touchStart had already ended.
C13_Witness ==
    /\ event = "mousedown"
    /\ signals = <<>>
    /\ ~touchStart
    /\ ~mouseDown /\ ~touchActive
    /\ documentListeners = {}
    /\ ~sessionOpen

\* C14: a move that locks the direction locks it to 'y' exactly when
\* |dy| > |dx|, and to 'x' otherwise: on the diagonals |dy| = |dx| and on the
\* horizontal dy = 0, for both signs of dx, the direction is 'x'.
C14_VerticalWindow ==
    [][(direction = Null /\ direction' # Null /\ signalType(signals') = "move"
        /\ startPos # Null)
       => LET dx == signals'[1].x - startPos[1]
              dy == signals'[1].y - startPos[2]
          IN  /\ direction' = "y" <=> Abs(dy) > Abs(dx)
              /\ direction' = "x" <=> Abs(dy) <= Abs(dx)
      ]_vars

\* A move down and to the left along the diagonal has just locked 'x'.
C14_Witness ==
    /\ signalType(signals) = "move"
    /\ direction = "x"
    /\ fired # <<>>
    /\ lastPos[1] - startPos[1] < 0
    /\ lastPos[2] - startPos[2] = -(lastPos[1] - startPos[1])

\* A displacement (dx, dy) of a single move from the start that locks an axis
\* and is shorter, along that axis, than the axis' own threshold, so that an
\* end right after it cancels.
locksThenCancels(dx, dy) ==
    /\ calculateDirection(dx, dy) # Null
    /\ arrowAction(calculateDirection(dx, dy), dx, dy) \in {"cancelx", "cancely"}

\* C15: an axis is locked exactly when the move is farther than the smaller
\* of the two thresholds from the start, as the crow flies; the end of a
\* locked session cancels exactly when the offset along the locked axis is
\* shorter than that axis' own threshold; so some single move locks an axis
\* and still ends in a cancel, with equal thresholds (4 and 4, a diagonal
\* move) and with unequal ones.
C15_CombinedGatePerAxisEnd ==
    /\ [](event = "new" =>
            /\ (minDistanceX = 4 /\ minDistanceY = 4) => locksThenCancels(3, 3)
            /\ (minDistanceX # minDistanceY)
               => \E dx \in -MaxX..MaxX, dy \in -MaxY..MaxY : locksThenCancels(dx, dy))
    /\ [][/\ (signalType(signals') = "move" /\ startPos # Null /\ direction = Null)
             => LET dx == signals'[1].x - startPos[1]
                    dy == signals'[1].y - startPos[2]
                    smaller == IF minDistanceX < minDistanceY
                               THEN minDistanceX ELSE minDistanceY
                IN  direction' # Null <=> dx * dx + dy * dy > smaller * smaller
          /\ (signalType(signals') = "end" /\ startPos # Null /\ lastPos # Null
              /\ direction # Null)
             => LET dx == lastPos[1] - startPos[1]
                    dy == lastPos[2] - startPos[2]
                IN  /\ direction = "x" =>
                         (fired' = <<Action("cancelx")>> <=> Abs(dx) < minDistanceX)
                    /\ direction = "y" =>
                         (fired' = <<Action("cancely")>> <=> Abs(dy) < minDistanceY)
         ]_vars

\* With both thresholds 4, a session that locked 'x' on the way to the far
\* corner has just ended there in cancelx.
C15_Witness ==
    /\ minDistanceX = 4 /\ minDistanceY = 4
    /\ signalType(signals) = "end"
    /\ fired = <<Action("cancelx")>>
    /\ Len(seen) = 1
    /\ seen[1].direction = "x"
    /\ seen[1].lastPos = <<MaxX, MaxY>>

\* The document events of a modality.
eventsOf(modality) == IF modality = "mouse" THEN MouseEvents ELSE TouchEvents

\* A session of the modality is in progress: the button is held, or a touch
\* has started and has not ended or been cancelled.
sessionOf(modality) == IF modality = "mouse" THEN mouseDown ELSE touchActive

\* Before teardown the document listeners of each modality are registered,
\* all of them, exactly while a session of that modality is in progress.
registeredIffActive ==
    ~disposed =>
        \A m \in {"mouse", "touch"} :
            /\ eventsOf(m) \subseteq documentListeners <=> sessionOf(m)
            /\ eventsOf(m) \cap documentListeners = {} <=> ~sessionOf(m)

\* C16 as stated: before teardown the document listeners of a modality are
\* registered iff a session of it is in progress, no handler adds them while
\* they are registered, and no handler removes them while they are not.
C16_StrictlyPaired ==
    /\ []registeredIffActive
    /\ [][event' # "dispatch" =>
            \A i \in 1..Len(calls') :
                /\ calls'[i].op = "add"
                   => eventsOf(calls'[i].modality) \cap documentListeners = {}
                /\ calls'[i].op = "remove"
                   => eventsOf(calls'[i].modality) \subseteq documentListeners
         ]_vars

\* C16 amended: before teardown the document listeners of a modality are
\* registered iff a session of it is in progress; every handled mousedown
\* that passes a start and every touchstart adds its modality's listeners,
\* also when they are registered already because a session of the same
\* modality is in progress (the DOM ignores the repeated add); every mouseup,
\* mouseleave, touchend and touchcancel removes them, and is only delivered
\* while they are registered; no other event adds or removes.
C16_PairedOnTheDocument ==
    /\ []registeredIffActive
    /\ [][event' \notin {"dispatch", "mousemove", "touchmove"} =>
            /\ calls' = CASE event' = "mousedown" /\ signals' # <<>>
                               -> <<call("add", "mouse")>>
                          [] event' = "touchstart"
                               -> <<call("add", "touch")>>
                          [] event' \in {"mouseup", "mouseleave"}
                               -> <<call("remove", "mouse")>>
                          [] event' \in {"touchend", "touchcancel"}
                               -> <<call("remove", "touch")>>
                          [] OTHER -> <<>>
            /\ \A i \in 1..Len(calls') :
                 LET m == calls'[i].modality
                 IN  /\ calls'[i].op = "add"
                        => /\ eventsOf(m) \subseteq documentListeners'
                           /\ (eventsOf(m) \cap documentListeners # {}) => sessionOf(m)
                     /\ calls'[i].op = "remove"
                        => /\ eventsOf(m) \subseteq documentListeners
                           /\ eventsOf(m) \cap documentListeners' = {}
         ]_vars
    /\ [][event' \in {"mousemove", "touchmove"} => calls' = <<>>]_vars

\* A second touchstart has just added the document touch listeners while the
\* first touch was in progress and they were registered: the set of document
\* listeners is what it was.
C16_Witness ==
    /\ event = "touchstart"
    /\ calls = <<call("add", "touch")>>
    /\ wasOpen
    /\ touchActive /\ ~mouseDown
    /\ documentListeners = TouchEvents

\* The session as a listener sees it when invoked with the closure state
\* (sp, lp, d).
sessionSeen(sp, lp, d) == [startSet |-> sp # Null, lastPos |-> lp, direction |-> d]

\* C17 as stated: when the action of a move, end or cancel reaches the
\* listeners the session already has its value after the signal: the new
\* last position and direction for a move, no session for an end or cancel.
C17_MutationBeforeDispatch ==
    \A i \in 1..Len(seen) :
        /\ signalType(signals) = "move"
           => /\ seen[i].startSet
              /\ seen[i] = sessionSeen(startPos, lastPos, direction)
        /\ signalType(signals) \in {"end", "cancel"}
           => /\ ~seen[i].startSet
              /\ seen[i] = sessionSeen(Null, Null, Null)

\* C17 amended: the action of a move reaches the listeners after the last
\* position and the direction have been updated; the action of an end or a
\* cancel reaches them while the session still has the value it had before
\* the signal, and the session is discarded only afterwards.
C17_DispatchOrder ==
    [][\A i \in 1..Len(seen') :
        /\ signalType(signals') = "move"
           => /\ seen'[i].startSet
              /\ seen'[i] = sessionSeen(startPos', lastPos', direction')
              /\ lastPos' = <<signals'[1].x, signals'[1].y>>
              /\ startPos' = startPos
        /\ signalType(signals') \in {"end", "cancel"}
           => /\ seen'[i].startSet
              /\ seen'[i] = sessionSeen(startPos, lastPos, direction)
              /\ startPos' = Null /\ lastPos' = Null /\ direction' = Null
      ]_vars

\* The cancel of a locked drag has just reached the listeners, which saw the
\* session with its direction still locked; it is discarded now.
C17_Witness ==
    /\ signalType(signals) = "cancel"
    /\ fired = <<Action("cancely")>>
    /\ seen = <<[startSet |-> TRUE, lastPos |-> <<0, MaxY>>, direction |-> "y"]>>
    /\ startPos = Null /\ direction = Null

\* C18: a start that arrives while a session is in progress replaces it: the
\* start and last positions become the new point, the direction is unlocked
\* and no action fires, whatever the old session had locked; an end right
\* after it is a tap classified from the new start position.
C18_StartReplacesSession ==
    [][/\ (signalType(signals') = "start" /\ startPos # Null)
          => /\ startPos' = <<signals'[1].x, signals'[1].y>>
             /\ lastPos' = startPos'
             /\ direction' = Null
             /\ fired' = <<>>
       /\ (signalType(signals) = "start" /\ wasOpen /\ signalType(signals') = "end")
          => /\ firedNames(fired') \subseteq TouchActions
             /\ (clickParts = 2 /\ signals[1].x < innerWidth)
                => fired' = <<Action(IF 2 * signals[1].x < innerWidth
                                     THEN "touchleft" ELSE "touchright")>>
      ]_vars

\* A second touchstart has just replaced a session in progress: the
\* classifier holds the new point only, and nothing fired.
C18_Witness ==
    /\ signalType(signals) = "start"
    /\ wasOpen
    /\ startPos = <<signals[1].x, signals[1].y>>
    /\ lastPos = startPos
    /\ direction = Null
    /\ fired = <<>>

\* C19: whatever the order of updateValue calls and animation frames, at
\* most one updateValue call waits for a frame, a frame passes at most one
\* value to the onChange listener, and that value, which is also the value
\* stored, is the one the most recent updateValue call before the frame was
\* called with.
C19_LatestValuePerFrame ==
    /\ rafCallbacks <= 1
    /\ Len(emitted) <= 1
    /\ emitted # <<>> => (emitted[1] = lastCall /\ <<value>> = emitted[1])

\* C20: a setRatio call with ratio 1 computes the position config.max, and
\* one with ratio 0 computes what the rounded-step formula gives for 0.
C20_RatioOneIsMax ==
    \A i \in 1..Len(ratioCalls) :
        /\ ratioCalls[i].ratio = trackWidth => ratioCalls[i].pos = rangeConfig.max
        /\ ratioCalls[i].ratio = 0 => ratioCalls[i].pos = stepRounded(0)

====
